---- MODULE Spec2Model ----
(***************************************************************************)
(* Model of rank_photos.py: the Photo record, the EloTable rating engine   *)
(* (add_photo, get_ranked_list, rank_photos, __score_result, to_dict) and  *)
(* the control flow of main (load ranking_table.json, glob, rank, save,    *)
(* report).                                                                *)
(*                                                                         *)
(* Python floats are modelled in fixed point: a score is an integer number *)
(* of 1/RScale rating points, an expectation an integer number of 1/Scale. *)
(* 10.0 ** x is computed by binary decomposition of the exponent with the  *)
(* tabulated roots 10^(1/2), 10^(1/4), ...                                 *)
(***************************************************************************)
EXTENDS Integers, Sequences, FiniteSets, TLC

\* ---------------------------------------------------------------- bounds
MaxRounds == 2
MaxRecord == 1
MaxJudge == 2
MaxApiCalls == 2

\* ------------------------------------------------------------- constants
\* Photo.LEFT, Photo.RIGHT, and the None that Display._choice keeps when the
\* window is closed without a choice (a value apart from both, here -1)
LEFT == 0
RIGHT == 1
None == -1

\* resolution of a score (1/100 rating point) and of an expectation (1/10000)
RScale == 100
Scale == 10000

\* default score of Photo.__init__: 1400.0
DefaultScore == 1400 * RScale
\* EloTable.__init__: max_increase = 32.0
K == 32

\* the file names of the photo directory: three match *.jpg; the fourth does not
\* (a name a run on a case-insensitive platform globbed and saved)
Names == {"a.jpg", "b.jpg", "c.jpg", "d.JPG"}
Ext(f) == IF f = "d.JPG" THEN "JPG" ELSE "jpg"

\* rating states a ranking_table.json written by an earlier run holds
PersistedStats ==
  { [score |-> 1400 * RScale, matches |-> 0, wins |-> 0],
    [score |-> 1416 * RScale, matches |-> 1, wins |-> 1],
    [score |-> 1384 * RScale, matches |-> 1, wins |-> 0] }

VARIABLES
  files,        \* the names for which os.path.isfile is true
  jsonFile,     \* ranking_table.json: [exists, photos]
  rankedTxt,    \* ranked.txt: [exists, rows]
  n_rounds,     \* args.n_rounds
  photos,       \* table._photos, a dict in insertion order: a sequence of Photo
  keys,         \* rank_photos: keys
  i,            \* rank_photos: round index
  jIdx,         \* rank_photos: position in range(0, n_photos - 1, 2), 1-based
  abort,        \* rank_photos: abort
  pc,           \* position of main
  photos0,      \* history: table._photos when rank_photos was entered
  judgeCalls,   \* history: number of Display(...) constructed
  judged,       \* history: number of __score_result calls
  roundLog      \* history: the pairs shown in the current round, in order

vars == << files, jsonFile, rankedTxt, n_rounds, photos, keys, i, jIdx, abort,
           pc, photos0, judgeCalls, judged, roundLog >>

\* ------------------------------------------------------------ class Photo
\* Photo.__init__ (after the isfile check, which the callers test with IsFile)
Photo(filename, score, wins, matches) ==
  [filename |-> filename, score |-> score, wins |-> wins, matches |-> matches]

IsFile(f) == f \in files

\* Photo.score(s, is_winner)
ScoreWinsAlways(p, s, is_winner) ==
  [p EXCEPT !.score = s, !.matches = @ + 1, !.wins = @ + 1]

ScoreSwapped(p, s, is_winner) ==
  [p EXCEPT !.score = s, !.wins = @ + 1,
            !.matches = IF is_winner THEN @ + 1 ELSE @]

score(p, s, is_winner) ==
  [p EXCEPT !.score = s, !.matches = @ + 1,
            !.wins = IF is_winner THEN @ + 1 ELSE @]

\* Photo.to_dict
PhotoToDict(p) ==
  [filename |-> p.filename, score |-> p.score, matches |-> p.matches, wins |-> p.wins]

\* Photo(**p): the entry's fields bound by keyword
PhotoFromDict(d) == Photo(d.filename, d.score, d.wins, d.matches)

\* ---------------------------------------------------------- class EloTable
KeysOf(tbl) == [k \in 1..Len(tbl) |-> tbl[k].filename]
HasKey(tbl, f) == \E k \in 1..Len(tbl) : tbl[k].filename = f
IndexOf(tbl, f) == CHOOSE k \in 1..Len(tbl) : tbl[k].filename = f

\* add_photo with a str argument
add_photo_str_overwrite(tbl, filename) ==
  IF HasKey(tbl, filename)
    THEN [tbl EXCEPT ![IndexOf(tbl, filename)] = Photo(filename, DefaultScore, 0, 0)]
    ELSE Append(tbl, Photo(filename, DefaultScore, 0, 0))

add_photo_str(tbl, filename) ==
  IF HasKey(tbl, filename) THEN tbl
  ELSE Append(tbl, Photo(filename, DefaultScore, 0, 0))

\* add_photo with a Photo argument
add_photo_obj(tbl, photo) ==
  IF HasKey(tbl, photo.filename) THEN tbl ELSE Append(tbl, photo)

\* sorted(..., key = score, reverse = True): stable, equal scores keep their order
RECURSIVE InsertDesc(_, _)
InsertDesc(sorted, p) ==
  IF sorted = << >> THEN << p >>
  ELSE IF Head(sorted).score >= p.score
         THEN << Head(sorted) >> \o InsertDesc(Tail(sorted), p)
         ELSE << p >> \o sorted

\* the same with ties reversed, as reversing an ascending stable sort gives
RECURSIVE InsertDescTiesReversed(_, _)
InsertDescTiesReversed(sorted, p) ==
  IF sorted = << >> THEN << p >>
  ELSE IF Head(sorted).score > p.score
         THEN << Head(sorted) >> \o InsertDescTiesReversed(Tail(sorted), p)
         ELSE << p >> \o sorted

RECURSIVE SortedDesc(_, _)
SortedDesc(tbl, acc) ==
  IF tbl = << >> THEN acc
  ELSE SortedDesc(Tail(tbl), InsertDesc(acc, Head(tbl)))

RECURSIVE SortedDescTiesReversed(_, _)
SortedDescTiesReversed(tbl, acc) ==
  IF tbl = << >> THEN acc
  ELSE SortedDescTiesReversed(Tail(tbl), InsertDescTiesReversed(acc, Head(tbl)))

\* get_ranked_list
get_ranked_list_unstable(tbl) == SortedDescTiesReversed(tbl, << >>)

get_ranked_list(tbl) == SortedDesc(tbl, << >>)

\* EloTable.to_dict: the ranked list, each photo as its dict
to_dict(tbl) ==
  LET rl == get_ranked_list(tbl)
  IN  [photos |-> [k \in 1..Len(rl) |-> PhotoToDict(rl[k])]]

\* 10^(1/2), 10^(1/4), ..., 10^(1/1024), in 1/Scale
Root10 == << 31623, 17783, 13335, 11548, 10746, 10366, 10182, 10090, 10045, 10023 >>

\* 10.0 ** (r / (400 * RScale)) for 0 <= r < 400 * RScale, in 1/Scale
RECURSIVE Pow10Frac(_, _, _)
Pow10Frac(r, k, acc) ==
  IF k > Len(Root10) THEN acc
  ELSE IF 2 * r >= 400 * RScale
         THEN Pow10Frac(2 * r - 400 * RScale, k + 1, (acc * Root10[k]) \div Scale)
         ELSE Pow10Frac(2 * r, k + 1, acc)

RECURSIVE IntPow10(_)
IntPow10(q) == IF q = 0 THEN 1 ELSE 10 * IntPow10(q - 1)

\* 10.0 ** (d / 400.0), d a score difference, in 1/Scale
Pow10(d) ==
  LET q == d \div (400 * RScale)
      f == Pow10Frac(d % (400 * RScale), 1, Scale)
  IN  IF q >= 0 THEN f * IntPow10(q) ELSE f \div IntPow10(0 - q)

\* 1.0 / (1.0 + 10.0 ** ((R_x - R_y) / 400.0)), in 1/Scale
Expectation(R_x, R_y) == (Scale * Scale) \div (Scale + Pow10(R_x - R_y))

\* R + self._K * (outcome - E), outcome 1.0 (won) or 0.0 (lost)
NewRating(R, outcome, E) == R + (K * RScale * (outcome * Scale - E)) \div Scale

\* __score_result written with the loser rated against the winner's new rating
score_result_sequential(tbl, winning, loosing) ==
  LET a    == IndexOf(tbl, winning)
      b    == IndexOf(tbl, loosing)
      R_a  == tbl[a].score
      R_b  == tbl[b].score
      E_a  == Expectation(R_a, R_b)
      R_a2 == NewRating(R_a, 1, E_a)
      E_b  == Expectation(R_b, R_a2)
      R_b2 == NewRating(R_b, 0, E_b)
      t1   == [tbl EXCEPT ![a] = score(tbl[a], R_a2, TRUE)]
  IN  [t1 EXCEPT ![b] = score(t1[b], R_b2, FALSE)]

\* EloTable.__score_result(winning_photo, loosing_photo)
score_result(tbl, winning, loosing) ==
  LET a    == IndexOf(tbl, winning)
      b    == IndexOf(tbl, loosing)
      R_a  == tbl[a].score
      R_b  == tbl[b].score
      E_a  == Expectation(R_a, R_b)
      E_b  == Expectation(R_b, R_a)
      R_a2 == NewRating(R_a, 1, E_a)
      R_b2 == NewRating(R_b, 0, E_b)
      t1   == [tbl EXCEPT ![a] = score(tbl[a], R_a2, TRUE)]
  IN  [t1 EXCEPT ![b] = score(t1[b], R_b2, FALSE)]

\* range(start, stop, step) as the sequence of its values
Range(start, stop, step) ==
  LET n == IF stop > start THEN (stop - start + step - 1) \div step ELSE 0
  IN  [k \in 1..n |-> start + (k - 1) * step]

\* range(0, n_photos - 1, 2) of rank_photos
MatchupRangeStepOne(n_photos) == Range(0, n_photos - 1, 1)

MatchupRange(n_photos) == Range(0, n_photos - 1, 2)

\* np.random.shuffle(keys): any permutation of keys
Shuffles(ks) ==
  { [k \in 1..Len(ks) |-> ks[p[k]]] :
      p \in { q \in [1..Len(ks) -> 1..Len(ks)] :
                \A x, y \in 1..Len(ks) : q[x] = q[y] => x = y } }

\* ------------------------------------------------------------------ main
\* glob.glob('*.jpg'): the existing files of that suffix, in the directory's order
Glob(fs) ==
  LET G == { f \in fs : Ext(f) = "jpg" }
  IN  { s \in [1..Cardinality(G) -> G] :
          \A x, y \in 1..Cardinality(G) : s[x] = s[y] => x = y }

\* main, lines 368-370: for p in d['photos']: table.add_photo(Photo(**p));
\* Photo.__init__ raises ValueError at the first entry whose file is missing
RECURSIVE LoadPhotos(_, _)
LoadPhotos(tbl, d) ==
  IF d = << >> THEN [ok |-> TRUE, tbl |-> tbl]
  ELSE IF ~IsFile(Head(d).filename) THEN [ok |-> FALSE, tbl |-> tbl]
  ELSE LoadPhotos(add_photo_obj(tbl, PhotoFromDict(Head(d))), Tail(d))

\* a table rebuilt from the scan alone, keeping the ratings of the files found
RECURSIVE MergeScanOnly(_, _)
MergeScanOnly(tbl, filelist) ==
  IF filelist = << >> THEN << >>
  ELSE << IF HasKey(tbl, Head(filelist))
            THEN tbl[IndexOf(tbl, Head(filelist))]
            ELSE Photo(Head(filelist), DefaultScore, 0, 0) >>
       \o MergeScanOnly(tbl, Tail(filelist))

\* main, lines 377-378: for filename in filelist: table.add_photo(filename)
RECURSIVE MergeScan(_, _)
MergeScan(tbl, filelist) ==
  IF filelist = << >> THEN tbl
  ELSE MergeScan(add_photo_str(tbl, Head(filelist)), Tail(filelist))

\* Photo.win_percentage, in 1/RScale percent; the caller tests matches = 0
win_percentage(p) == (100 * RScale * p.wins) \div p.matches

\* the rows main hands to tabulate
ReportRows(rl) ==
  [k \in 1..Len(rl) |->
     << k, rl[k].score, rl[k].matches, win_percentage(rl[k]), rl[k].filename >>]

\* the ranking_table.json files an earlier run can have written
Records ==
  UNION { { r \in [1..n -> { PhotoToDict(Photo(f, st.score, st.wins, st.matches)) :
                               f \in Names, st \in PersistedStats }] :
              /\ \A x, y \in 1..n : r[x].filename = r[y].filename => x = y
              /\ \A x \in 1..(n - 1) : r[x].score >= r[x + 1].score }
          : n \in 0..MaxRecord }

\* the names the call-by-call runs use
ApiNames == {"a.jpg", "b.jpg", "d.JPG"}

\* the outcomes of one Display: the runs explored end with the user closing the
\* window once MaxJudge pairs have been shown
Choices(shown) == IF shown < MaxJudge THEN {LEFT, RIGHT, None} ELSE {None}

n_photos == Len(photos)

\* the outer loop of rank_photos goes on: for i in range(n_iterations), if abort: break
RoundContinuesIgnoringAbort(round, n_iterations, aborted) == round < n_iterations

RoundContinues(round, n_iterations, aborted) == round < n_iterations /\ ~aborted

\* the photo directories explored: the first k of the jpg names, with or without
\* the file that *.jpg does not match
Directories ==
  { J \cup X : J \in { {}, {"a.jpg"}, {"a.jpg", "b.jpg"}, {"a.jpg", "b.jpg", "c.jpg"} },
               X \in { {}, {"d.JPG"} } }

\* main started on a photo directory
InitMain ==
  /\ files \in Directories
  /\ jsonFile \in {[exists |-> FALSE, photos |-> << >>]}
                    \cup { [exists |-> TRUE, photos |-> r] : r \in Records }
  /\ rankedTxt = [exists |-> FALSE, rows |-> << >>]
  /\ n_rounds \in 0..MaxRounds
  /\ photos = << >>
  /\ keys = << >>
  /\ i = 0
  /\ jIdx = 0
  /\ abort = FALSE
  /\ pc = "load"
  /\ photos0 = << >>
  /\ judgeCalls = 0
  /\ judged = 0
  /\ roundLog = << >>

\* an EloTable of its own, driven call by call (add_photo, __score_result)
InitTable ==
  /\ files = ApiNames
  /\ jsonFile = [exists |-> FALSE, photos |-> << >>]
  /\ rankedTxt = [exists |-> FALSE, rows |-> << >>]
  /\ n_rounds = 0
  /\ photos = << >>
  /\ keys = << >>
  /\ i = 0
  /\ jIdx = 0
  /\ abort = FALSE
  /\ pc = "api"
  /\ photos0 = << >>
  /\ judgeCalls = 0
  /\ judged = 0
  /\ roundLog = << >>

Init == InitMain \/ InitTable

\* main, lines 364-370
LoadTable ==
  /\ pc = "load"
  /\ LET r == IF jsonFile.exists THEN LoadPhotos(<< >>, jsonFile.photos)
              ELSE [ok |-> TRUE, tbl |-> << >>]
     IN  /\ photos' = r.tbl
         /\ pc' = IF r.ok THEN "glob" ELSE "ValueError"
  /\ UNCHANGED << files, jsonFile, rankedTxt, n_rounds, keys, i, jIdx, abort,
                  photos0, judgeCalls, judged, roundLog >>

\* main, lines 374-378
GlobAndAdd ==
  /\ pc = "glob"
  /\ \E filelist \in Glob(files) : photos' = MergeScan(photos, filelist)
  /\ pc' = "rank"
  /\ UNCHANGED << files, jsonFile, rankedTxt, n_rounds, keys, i, jIdx, abort,
                  photos0, judgeCalls, judged, roundLog >>

\* rank_photos, lines 268-270
EnterRank ==
  /\ pc = "rank"
  /\ keys' = KeysOf(photos)
  /\ abort' = FALSE
  /\ i' = 0
  /\ photos0' = photos
  /\ pc' = "round"
  /\ UNCHANGED << files, jsonFile, rankedTxt, n_rounds, photos, jIdx,
                  judgeCalls, judged, roundLog >>

\* rank_photos, lines 271-276: one more round, keys shuffled afresh
StartRound ==
  /\ pc = "round"
  /\ RoundContinues(i, n_rounds, abort)
  /\ keys' \in Shuffles(keys)
  /\ roundLog' = << >>
  /\ IF MatchupRange(n_photos) = << >>
       THEN i' = i + 1 /\ jIdx' = 0 /\ pc' = "round"
       ELSE i' = i /\ jIdx' = 1 /\ pc' = "match"
  /\ UNCHANGED << files, jsonFile, rankedTxt, n_rounds, photos, abort,
                  photos0, judgeCalls, judged >>

\* rank_photos, lines 277-294: one pair shown and judged
Match ==
  /\ pc = "match"
  /\ LET j       == MatchupRange(n_photos)[jIdx]
         photo_a == keys[j + 1]
         photo_b == keys[j + 2]
         more    == jIdx < Len(MatchupRange(n_photos))
     IN  \E choice \in Choices(judgeCalls) :
           /\ judgeCalls' = judgeCalls + 1
           /\ roundLog' = Append(roundLog, << photo_a, photo_b >>)
           /\ IF choice = None
                THEN /\ abort' = TRUE
                     /\ i' = i + 1
                     /\ pc' = "round"
                     /\ UNCHANGED << photos, judged, jIdx >>
                ELSE /\ photos' = IF choice = LEFT
                                    THEN score_result(photos, photo_a, photo_b)
                                    ELSE score_result(photos, photo_b, photo_a)
                     /\ judged' = judged + 1
                     /\ abort' = abort
                     /\ IF more
                          THEN jIdx' = jIdx + 1 /\ i' = i /\ pc' = "match"
                          ELSE jIdx' = jIdx /\ i' = i + 1 /\ pc' = "round"
  /\ UNCHANGED << files, jsonFile, rankedTxt, n_rounds, keys, photos0 >>

\* rank_photos returns: the rounds are over, or abort broke the loop
LeaveRank ==
  /\ pc = "round"
  /\ ~RoundContinues(i, n_rounds, abort)
  /\ pc' = "save"
  /\ UNCHANGED << files, jsonFile, rankedTxt, n_rounds, photos, keys, i, jIdx,
                  abort, photos0, judgeCalls, judged, roundLog >>

\* main, lines 389-391
Save ==
  /\ pc = "save"
  /\ jsonFile' = [exists |-> TRUE, photos |-> to_dict(photos).photos]
  /\ pc' = "report"
  /\ UNCHANGED << files, rankedTxt, n_rounds, photos, keys, i, jIdx, abort,
                  photos0, judgeCalls, judged, roundLog >>

\* main, lines 395-414: ranked.txt is opened for writing (and so emptied), then
\* win_percentage divides by matches for every photo of the ranked list
Report ==
  /\ pc = "report"
  /\ LET rl == get_ranked_list(photos)
     IN  IF \E k \in 1..Len(rl) : rl[k].matches = 0
           THEN /\ rankedTxt' = [exists |-> TRUE, rows |-> << >>]
                /\ pc' = "ZeroDivisionError"
           ELSE /\ rankedTxt' = [exists |-> TRUE, rows |-> ReportRows(rl)]
                /\ pc' = "done"
  /\ UNCHANGED << files, jsonFile, n_rounds, photos, keys, i, jIdx, abort,
                  photos0, judgeCalls, judged, roundLog >>

\* table.add_photo(filename), the file present
ApiAddStr ==
  /\ pc = "api"
  /\ \E f \in ApiNames :
       /\ IsFile(f)
       /\ photos' = add_photo_str(photos, f)
  /\ UNCHANGED << files, jsonFile, rankedTxt, n_rounds, keys, i, jIdx, abort,
                  pc, photos0, judgeCalls, judged, roundLog >>

\* table.add_photo(Photo(filename, score, wins, matches)), the file present
ApiAddObj ==
  /\ pc = "api"
  /\ \E f \in ApiNames, st \in PersistedStats :
       /\ IsFile(f)
       /\ photos' = add_photo_obj(photos, Photo(f, st.score, st.wins, st.matches))
  /\ UNCHANGED << files, jsonFile, rankedTxt, n_rounds, keys, i, jIdx, abort,
                  pc, photos0, judgeCalls, judged, roundLog >>

\* __score_result on two photos of the table
ApiScore ==
  /\ pc = "api"
  /\ judged < MaxApiCalls
  /\ \E a, b \in 1..Len(photos) :
       /\ a # b
       /\ photos' = score_result(photos, photos[a].filename, photos[b].filename)
  /\ judged' = judged + 1
  /\ UNCHANGED << files, jsonFile, rankedTxt, n_rounds, keys, i, jIdx, abort,
                  pc, photos0, judgeCalls, roundLog >>

Next ==
  \/ ApiAddStr
  \/ ApiAddObj
  \/ ApiScore
  \/ LoadTable
  \/ GlobAndAdd
  \/ EnterRank
  \/ StartRound
  \/ Match
  \/ LeaveRank
  \/ Save
  \/ Report

Spec == Init /\ [][Next]_vars

\* ---------------------------------------------------------------- claims
\* rank_photos has been entered / ranking_table.json has been rewritten
InRank == pc \in {"round", "match", "save", "report", "done", "ZeroDivisionError"}
AfterSave == pc \in {"report", "done", "ZeroDivisionError"}
Terminated == pc \in {"done", "ValueError", "ZeroDivisionError"}

FileNamesOf(d) == { d[k].filename : k \in 1..Len(d) }
Distinct(s) == \A x, y \in 1..Len(s) : s[x] = s[y] => x = y

RECURSIVE SumMatches(_)
SumMatches(tbl) == IF tbl = << >> THEN 0 ELSE Head(tbl).matches + SumMatches(Tail(tbl))
RECURSIVE SumWins(_)
SumWins(tbl) == IF tbl = << >> THEN 0 ELSE Head(tbl).wins + SumWins(Tail(tbl))

\* C1: once a Display comes back with no choice (abort), no further Display is
\* constructed in that call, neither for a pair left in the round nor in a later
\* round; the aborted pair changes no photo; what was scored before stays; and
\* if the very first judgment aborts, every photo is as it was on entry.
C1_AbortStopsJudging ==
  /\ [](InRank /\ abort /\ judged = 0 => photos = photos0)
  /\ [](InRank /\ abort /\ AfterSave => jsonFile.photos = to_dict(photos).photos)
  /\ [][ /\ (abort => judgeCalls' = judgeCalls /\ photos' = photos)
         /\ (~abort /\ abort' => photos' = photos /\ judged' = judged) ]_vars

\* an abort after a scored match-up, with rounds left, saved
C1_Witness ==
  abort /\ judged >= 1 /\ i < n_rounds /\ pc = "report" /\ photos # photos0

\* C2: the report over the ranked list completes whatever the photos' match
\* counts: no division by zero ends the run, and ranked.txt holds a row a photo.
C2_ReportSurvivesZeroMatches ==
  pc \in {"done", "ZeroDivisionError"}
    => pc = "done" /\ Len(rankedTxt.rows) = Len(photos)

\* C3: a run whose load and merge succeeded ends normally, with the table saved
\* and the report written, whether the rounds completed or were aborted.
C3_RunEndsNormally ==
  Terminated /\ pc # "ValueError"
    => /\ pc = "done"
       /\ jsonFile = [exists |-> TRUE, photos |-> to_dict(photos).photos]
       /\ rankedTxt.exists

\* C4: the pairs shown in a round are the consecutive disjoint pairs of that
\* round's shuffled keys, left to right: at most floor(n/2) of them, exactly
\* floor(n/2) in a round that is not aborted, no photo in two pairs, the last key
\* of an odd n in none; with n <= 1 no Display is ever constructed and no photo
\* changes.
C4_DisjointConsecutivePairs ==
  InRank =>
    /\ Len(roundLog) <= n_photos \div 2
    /\ Len(keys) = n_photos /\ Distinct(keys)
    /\ { keys[k] : k \in 1..Len(keys) } = FileNamesOf(photos)
    /\ \A k \in 1..Len(roundLog) : roundLog[k] = << keys[2 * k - 1], keys[2 * k] >>
    /\ (pc = "match" => Len(roundLog) = jIdx - 1)
    /\ (pc # "match" /\ i > 0 /\ ~abort =>
          /\ Len(roundLog) = n_photos \div 2
          /\ (n_photos % 2 = 1 =>
                \A k \in 1..Len(roundLog) :
                  keys[n_photos] # roundLog[k][1] /\ keys[n_photos] # roundLog[k][2]))
    /\ (n_photos <= 1 => judgeCalls = 0 /\ photos = photos0)

\* a completed round of two pairs
C4_Witness ==
  pc = "round" /\ i = 1 /\ ~abort /\ n_photos = 4 /\ Len(roundLog) = 2

\* C5: add_photo never overwrites: a call, by file name or by Photo, leaves every
\* photo already in the table as it is and in its place, and no file name is in
\* the table twice; so the photos loaded from ranking_table.json keep their
\* rating state when the glob adds the same file names.
C5_AddPhotoNeverOverwrites ==
  /\ [](Distinct(KeysOf(photos)))
  /\ [][ (pc = "glob" \/ (pc = "api" /\ judged' = judged)) =>
           /\ Len(photos') >= Len(photos)
           /\ \A k \in 1..Len(photos) : photos'[k] = photos[k] ]_vars

\* a photo loaded with a history, its file name added again by the glob
C5_Witness ==
  /\ pc = "rank"
  /\ \E k \in 1..Len(photos) :
       /\ photos[k].matches > 0
       /\ photos[k].filename \in files /\ Ext(photos[k].filename) = "jpg"

\* C6: 0 <= wins <= matches for every photo in every state, for photos made by
\* the glob and for photos loaded from ranking_table.json alike, and a photo's
\* wins and matches change only in a scored match-up.
C6_WinsAtMostMatches ==
  /\ [](\A k \in 1..Len(photos) :
          0 <= photos[k].wins /\ photos[k].wins <= photos[k].matches)
  /\ [][ \A k \in 1..Len(photos) :
           (k <= Len(photos') /\ photos'[k].filename = photos[k].filename
              /\ (photos'[k].wins # photos[k].wins
                    \/ photos'[k].matches # photos[k].matches))
             => judged' = judged + 1 ]_vars

\* a photo that has won and lost
C6_Witness ==
  \E k \in 1..Len(photos) :
    photos[k].wins >= 1 /\ photos[k].matches > photos[k].wins /\ judged >= 1

\* the file is not one the glob returns
NotScanned(f) == ~(f \in files /\ Ext(f) = "jpg")

\* C7 as stated: a photo of ranking_table.json that the glob does not return is
\* never shown in a match-up, and stays in the table and in the saved file.
C7_UnscannedNeverMatched ==
  InRank =>
    /\ \A k \in 1..Len(roundLog) :
         ~NotScanned(roundLog[k][1]) /\ ~NotScanned(roundLog[k][2])
    /\ \A k \in 1..Len(photos0) : HasKey(photos, photos0[k].filename)

\* C7 as amended: a photo of ranking_table.json that the glob does not return
\* and whose file exists stays in the table with its rating state until a
\* match-up changes it, is one of the keys every round shuffles and pairs, and
\* is in the file saved at the end; if its file is missing the run ends with
\* ValueError before any pair is shown and ranking_table.json is not rewritten.
C7_UnscannedRetainedAndPaired ==
  /\ (pc = "ValueError" =>
        /\ judgeCalls = 0 /\ ~rankedTxt.exists
        /\ \E k \in 1..Len(jsonFile.photos) : ~IsFile(jsonFile.photos[k].filename))
  /\ (pc \in {"load", "glob", "rank", "round", "match", "save"} /\ jsonFile.exists =>
        ((\E k \in 1..Len(jsonFile.photos) : ~IsFile(jsonFile.photos[k].filename))
           => pc = "load"))
  /\ (pc \in {"glob", "rank", "round", "match", "save"} =>
        \A k \in 1..Len(jsonFile.photos) :
          /\ HasKey(photos, jsonFile.photos[k].filename)
          /\ (judged = 0 =>
                photos[IndexOf(photos, jsonFile.photos[k].filename)]
                  = PhotoFromDict(jsonFile.photos[k])))
  /\ (InRank =>
        \A k \in 1..Len(photos0) :
          NotScanned(photos0[k].filename) =>
            /\ HasKey(photos, photos0[k].filename)
            /\ \E x \in 1..Len(keys) : keys[x] = photos0[k].filename
            /\ (AfterSave => photos0[k].filename \in FileNamesOf(jsonFile.photos)))

\* a photo the glob did not return, shown in a match-up and saved
C7_Witness ==
  /\ pc = "report"
  /\ \E k \in 1..Len(roundLog) :
       NotScanned(roundLog[k][1]) \/ NotScanned(roundLog[k][2])
  /\ \E f \in FileNamesOf(jsonFile.photos) : NotScanned(f)

\* C8: writing the table with to_dict and loading what was written into an
\* empty table gives the same ranked list: the same file names, scores, matches
\* and wins in the same order, whatever the table's insertion order.
C8_RoundTrip ==
  LET written == to_dict(photos).photos
      loaded  == LoadPhotos(<< >>, written)
  IN  /\ loaded.ok
      /\ get_ranked_list(loaded.tbl) = get_ranked_list(photos)

\* a table whose ranked order is not its insertion order, with a tie in it
C8_Witness ==
  /\ Len(photos) >= 3
  /\ get_ranked_list(photos) # photos
  /\ \E x, y \in 1..Len(photos) : x # y /\ photos[x].score = photos[y].score
  /\ \E x \in 1..Len(photos) : photos[x].matches # photos[x].wins

\* C9: a scored match-up rates both photos from the two scores as they were
\* before it: winner R_a + K*(1 - E_a), loser R_b + K*(0 - E_b), with
\* E_a = 1/(1 + 10^((R_a - R_b)/400)) and E_b = 1/(1 + 10^((R_b - R_a)/400));
\* from 1400 against 1400 the winner goes to 1416 and the loser to 1384.
C9_SimultaneousEloUpdate ==
  [][ judged' = judged + 1 =>
        \E a, b \in 1..Len(photos) :
          /\ a # b
          /\ photos'[a].wins = photos[a].wins + 1
          /\ photos'[b].wins = photos[b].wins
          /\ photos'[b].matches = photos[b].matches + 1
          /\ photos'[a].score
               = photos[a].score
                   + (K * RScale * (Scale - Expectation(photos[a].score, photos[b].score)))
                       \div Scale
          /\ photos'[b].score
               = photos[b].score
                   + (K * RScale * (0 - Expectation(photos[b].score, photos[a].score)))
                       \div Scale
          /\ (photos[a].score = 1400 * RScale /\ photos[b].score = 1400 * RScale
                => photos'[a].score = 1416 * RScale /\ photos'[b].score = 1384 * RScale)
    ]_vars

\* the first match-up of a run whose photos all stood at 1400
C9_Witness ==
  /\ InRank /\ judged = 1
  /\ \A k \in 1..Len(photos0) : photos0[k].score = 1400 * RScale
  /\ \E a, b \in 1..Len(photos) :
       photos[a].score = 1416 * RScale /\ photos[b].score = 1384 * RScale

\* C10: while rank_photos runs, with m match-ups scored, the matches of all
\* photos sum to the sum on entry plus 2m and the wins to the sum on entry plus
\* m; the file names of the table are those on entry; and a scored match-up
\* changes two photos only: the winner gets one match and one win more, the
\* loser one match more and no win.
C10_MatchCountsConserved ==
  /\ [](InRank =>
          /\ SumMatches(photos) = SumMatches(photos0) + 2 * judged
          /\ SumWins(photos) = SumWins(photos0) + judged
          /\ KeysOf(photos) = KeysOf(photos0))
  /\ [][ judged' = judged + 1 =>
           /\ KeysOf(photos') = KeysOf(photos)
           /\ \E a, b \in 1..Len(photos) :
                /\ a # b
                /\ photos'[a].matches = photos[a].matches + 1
                /\ photos'[a].wins = photos[a].wins + 1
                /\ photos'[b].matches = photos[b].matches + 1
                /\ photos'[b].wins = photos[b].wins
                /\ \A k \in 1..Len(photos) : k # a /\ k # b => photos'[k] = photos[k]
       ]_vars

\* two scored match-ups, the run over
C10_Witness ==
  pc = "done" /\ judged = 2 /\ Len(photos) >= 3

====
